---- MODULE Spec2Model ----
(***************************************************************************)
(* Level Zero discovery backend of hwloc (hwloc/topology-levelzero.c).     *)
(*                                                                         *)
(* The model follows hwloc_levelzero_discover() and                        *)
(* hwloc__levelzero_properties_get() call by call.  The vendor API is the  *)
(* environment: the machine it reports is the variable hw, fixed for a     *)
(* process.  A device answers each of its queries the same way every time  *)
(* (the field fails names the queries it refuses); initialisation, the     *)
(* driver and device listings and every malloc() may fail at any call      *)
(* while the fault budget lasts.  A C string is a sequence of chunks whose concatenation is the   *)
(* text: an attribute name or message taken from a string literal is one   *)
(* chunk; text produced by a conversion, reported by the vendor API, read  *)
(* from the environment or compared by strcasecmp() is one chunk per       *)
(* character.                                                              *)
(***************************************************************************)
EXTENDS Integers, Sequences, FiniteSets, TLC

\* ------------------------------------------------------------------ bounds
MaxDrivers == 2
MaxDevices == 2
MaxTotal == 3
MaxCQ == 2
MaxFaults == 1
MaxRuns == 2

\* --------------------------------------------------------------- C strings
NULL == "NULL"
\* what getenv() yields for a variable that is not set, as a C string value
Unset == <<NULL>>
\* zeInit() has not run in this invocation
NotCalled == <<"not called">>

Digits == <<"0", "1", "2", "3", "4", "5", "6", "7", "8", "9">>
HexDigits == <<"0", "1", "2", "3", "4", "5", "6", "7", "8", "9", "a", "b", "c", "d", "e", "f">>
UpperCase == <<"A", "B", "C", "D", "E", "F", "G", "H", "I", "J", "K", "L", "M", "N", "O", "P", "Q", "R", "S", "T", "U", "V", "W", "X", "Y", "Z">>
LowerCase == <<"a", "b", "c", "d", "e", "f", "g", "h", "i", "j", "k", "l", "m", "n", "o", "p", "q", "r", "s", "t", "u", "v", "w", "x", "y", "z">>

\* printf("%u", n)
RECURSIVE FmtU(_)
FmtU(n) == IF n < 10 THEN <<Digits[n + 1]>> ELSE FmtU(n \div 10) \o <<Digits[(n % 10) + 1]>>

\* printf("%lx", n)
RECURSIVE FmtLX(_)
FmtLX(n) == IF n < 16 THEN <<HexDigits[n + 1]>> ELSE FmtLX(n \div 16) \o <<HexDigits[(n % 16) + 1]>>

\* tolower() of one character
ToLower(c) == IF \E k \in 1..26 : UpperCase[k] = c THEN LowerCase[CHOOSE k \in 1..26 : UpperCase[k] = c] ELSE c

\* strcasecmp(): 0 when the strings agree up to case, non-zero otherwise
StrCaseCmp(a, b) == IF Len(a) = Len(b) /\ \A k \in 1..Len(a) : ToLower(a[k]) = ToLower(b[k]) THEN 0 ELSE 1

DigitVal(c) == (CHOOSE k \in 1..10 : Digits[k] = c) - 1
IsDigit(c) == \E k \in 1..10 : Digits[k] = c

\* atoi(): optional sign, then the leading decimal digits; 0 when there are none
RECURSIVE AtoiDigits(_, _)
AtoiDigits(s, acc) == IF s = <<>> \/ ~IsDigit(Head(s)) THEN acc ELSE AtoiDigits(Tail(s), acc * 10 + DigitVal(Head(s)))
RECURSIVE Atoi(_)
Atoi(s) == IF s = <<>> THEN 0 ELSE IF Head(s) = " " THEN Atoi(Tail(s)) ELSE IF Head(s) = "-" THEN 0 - AtoiDigits(Tail(s), 0) ELSE IF Head(s) = "+" THEN AtoiDigits(Tail(s), 0) ELSE AtoiDigits(s, 0)

\* printf("%d", n)
FmtD(n) == IF n < 0 THEN <<"-">> \o FmtU(0 - n) ELSE FmtU(n)

\* ------------------------------------------------ vendor API: result codes
ZE_RESULT_SUCCESS == 0
\* the failure codes a call may return (ZE_RESULT_ERROR_DEVICE_LOST, ZE_RESULT_ERROR_UNINITIALIZED)
ZeErrors == {1879048193, 2013265921}

ZE_DEVICE_TYPE_GPU == 1
ZE_DEVICE_TYPE_CPU == 2
ZE_DEVICE_TYPE_FPGA == 3
ZE_DEVICE_TYPE_MCA == 4
ZE_DEVICE_TYPE_VPU == 5

\* ------------------------------------------------------- the host topology
BusPciDev == <<0, 3, 0, 0>>
BusBridge == <<0, 4, 0, 0>>
BusNone == <<0, 9, 0, 0>>

NodeIds == {"root", "pcidev", "bridge"}

\* the tree as the PCI stage left it: the root, one PCI device, one bridge
PciTopology == [nodes |-> [n \in NodeIds |-> [type |-> IF n = "root" THEN "HWLOC_OBJ_MACHINE" ELSE IF n = "pcidev" THEN "HWLOC_OBJ_PCI_DEVICE" ELSE "HWLOC_OBJ_BRIDGE", linkspeed |-> <<0, 1>>, children |-> <<>>]], busids |-> (BusPciDev :> "pcidev" @@ BusBridge :> "bridge")]

\* hwloc_pci_find_parent_by_busid(): the node registered for the bus id, or NULL
hwloc_pci_find_parent_by_busid(topo, busid) == IF busid \in DOMAIN topo.busids THEN topo.busids[busid] ELSE NULL

hwloc_get_root_obj(topo) == "root"

\* hwloc_insert_object_by_parent(): obj becomes the last child of parent
hwloc_insert_object_by_parent(topo, par, obj) == IF par \in DOMAIN topo.nodes THEN [topo EXCEPT !.nodes[par].children = Append(@, obj)] ELSE topo

\* hwloc_obj_add_info(): one more (name, value) pair at the end of the infos
hwloc_obj_add_info(obj, name, value) == [obj EXCEPT !.infos = Append(@, [name |-> name, value |-> value])]

\* hwloc_alloc_setup_object(): a blank object of the given type
hwloc_alloc_setup_object(type) == [type |-> type, name |-> NULL, subtype |-> NULL, depth |-> 0, osdevtype |-> NULL, infos |-> <<>>]

\* ------------------------------------------- the machine behind the vendor API
S_Unknown == <<"U", "n", "k", "n", "o", "w", "n">>
S_unknown == <<"u", "n", "k", "n", "o", "w", "n">>
S_UNKNOWN == <<"U", "N", "K", "N", "O", "W", "N">>
S_Intel == <<"I", "n", "t", "e", "l">>
S_Arc == <<"A", "r", "c">>

Queries == {"zeDeviceGetProperties", "zesDeviceGetProperties", "zeDeviceGetCommandQueueGroupProperties count", "zeDeviceGetCommandQueueGroupProperties fill", "zesDevicePciGetProperties"}

\* which queries the device at (i, j) refuses, per health pattern of the machine
Patterns == {"healthy", "no sysman", "mixed"}
StdFails(di, dj, p) == IF p = "healthy" THEN {} ELSE IF p = "no sysman" THEN {"zesDeviceGetProperties", "zesDevicePciGetProperties"} ELSE IF dj = 0 THEN {"zesDeviceGetProperties", "zeDeviceGetCommandQueueGroupProperties fill"} ELSE IF di = 0 THEN {"zeDeviceGetProperties", "zeDeviceGetCommandQueueGroupProperties count"} ELSE {"zesDevicePciGetProperties"}

\* the device a driver of the enumeration worlds reports at position (i, j)
StdDevice(di, dj, p) == [fails |-> StdFails(di, dj, p), type |-> ZE_DEVICE_TYPE_GPU, numSlices |-> 1 + di, numSubslicesPerSlice |-> 6, numEUsPerSubslice |-> 16, numThreadsPerEU |-> 7, vendorName |-> S_Intel, modelName |-> S_Arc, brandName |-> S_unknown, serialNumber |-> <<"4", "2">>, boardNumber |-> S_Unknown, cq |-> <<[numQueues |-> 1 + dj, flags |-> 15]>>, cqCount |-> 1, busid |-> IF (di + dj) % 3 = 0 THEN BusPciDev ELSE IF (di + dj) % 3 = 1 THEN BusNone ELSE BusBridge, maxBandwidth |-> 2000000000]

DeviceCounts == 0..MaxDevices

RECURSIVE Total(_)
Total(cnt) == IF cnt = <<>> THEN 0 ELSE Head(cnt) + Total(Tail(cnt))

\* every driver/device layout within the bounds, with the standard devices
ShapeWorlds(p) == UNION {{[drivers |-> [di \in 1..n |-> [dj \in 1..cnt[di] |-> StdDevice(di - 1, dj - 1, p)]]] : cnt \in {c \in [1..n -> DeviceCounts] : Total(c) <= MaxTotal}} : n \in 0..MaxDrivers}

\* one driver with one device, the device varied one aspect at a time
TypeCodes == {ZE_DEVICE_TYPE_GPU, ZE_DEVICE_TYPE_CPU, ZE_DEVICE_TYPE_FPGA, ZE_DEVICE_TYPE_MCA, ZE_DEVICE_TYPE_VPU, 0, 6}
Healthy == StdDevice(0, 0, "healthy")
Names == {S_Unknown, S_unknown, S_UNKNOWN, S_Intel}
CQDescs == {[numQueues |-> 1, flags |-> 0], [numQueues |-> 12, flags |-> 31]}
CQLists == UNION {[1..n -> CQDescs] : n \in 0..MaxCQ}
Bandwidths == {-1, 0, 985000000}

VariedDevices == {[Healthy EXCEPT !.type = t, !.numThreadsPerEU = 8 * t] : t \in TypeCodes} \cup {[Healthy EXCEPT !.vendorName = v, !.modelName = m, !.brandName = b, !.serialNumber = b, !.boardNumber = b] : v \in Names, m \in Names, b \in {S_Unknown, S_Arc}} \cup UNION {{[Healthy EXCEPT !.cq = l, !.cqCount = c] : c \in {Len(l), Len(l) + 1}} : l \in CQLists} \cup {[Healthy EXCEPT !.busid = b, !.maxBandwidth = w] : b \in {BusPciDev, BusBridge, BusNone}, w \in Bandwidths}

\* one driver with one device that refuses any set of its queries
FailingDevices == {[Healthy EXCEPT !.fails = f] : f \in SUBSET Queries}

DeviceWorlds == {[drivers |-> <<(<<d>>)>>] : d \in VariedDevices}
FailureWorlds == {[drivers |-> <<(<<d>>)>>] : d \in FailingDevices}

\* values of ZES_ENABLE_SYSMAN at process start
EnvValues == {Unset, <<"0">>, <<"1">>, <<"o", "n">>, <<" ", "2">>}

\* ------------------------------------------------------- Property Collector
\* the switch on prop.type: the class name, and whether the code was expected
DeviceTypeName(type) == IF type = ZE_DEVICE_TYPE_GPU THEN <<"GPU">> ELSE IF type = ZE_DEVICE_TYPE_CPU THEN <<"CPU">> ELSE IF type = ZE_DEVICE_TYPE_FPGA THEN <<"FPGA">> ELSE IF type = ZE_DEVICE_TYPE_MCA THEN <<"MCA">> ELSE IF type = ZE_DEVICE_TYPE_VPU THEN <<"VPU">> ELSE <<"Unknown">>
DeviceTypeKnown(type) == type \in {ZE_DEVICE_TYPE_GPU, ZE_DEVICE_TYPE_CPU, ZE_DEVICE_TYPE_FPGA, ZE_DEVICE_TYPE_MCA, ZE_DEVICE_TYPE_VPU}

UnexpectedTypeMsg(type) == <<"hwloc/levelzero: unexpected device type ">> \o FmtU(type) \o <<"\n">>
SysmanLateMsg == <<"hwloc/levelzero: zesDeviceGetProperties() failed (ZES_ENABLE_SYSMAN=1 set too late?).\n">>
SysmanZeroMsg == <<"hwloc/levelzero: zesDeviceGetProperties() failed (ZES_ENABLE_SYSMAN=0).\n">>

\* the attributes recorded when zeDeviceGetProperties() succeeds
BasicInfos(obj, prop) == hwloc_obj_add_info(hwloc_obj_add_info(hwloc_obj_add_info(hwloc_obj_add_info(hwloc_obj_add_info(obj, <<"LevelZeroDeviceType">>, DeviceTypeName(prop.type)), <<"LevelZeroDeviceNumSlices">>, FmtU(prop.numSlices)), <<"LevelZeroDeviceNumSubslicesPerSlice">>, FmtU(prop.numSubslicesPerSlice)), <<"LevelZeroDeviceNumEUsPerSubslice">>, FmtU(prop.numEUsPerSubslice)), <<"LevelZeroDeviceNumThreadsPerEU">>, FmtU(prop.numThreadsPerEU))

\* one sysman attribute, recorded unless the tested field reads "Unknown"
SysmanInfo(obj, tested, name, value) == IF StrCaseCmp(tested, S_Unknown) # 0 THEN hwloc_obj_add_info(obj, name, value) ELSE obj

\* the attributes recorded when zesDeviceGetProperties() succeeds; the model
\* name is guarded by the vendor name, as in the source
SysmanInfos(obj, prop2) == SysmanInfo(SysmanInfo(SysmanInfo(SysmanInfo(SysmanInfo(obj, prop2.vendorName, <<"LevelZeroVendor">>, prop2.vendorName), prop2.vendorName, <<"LevelZeroModel">>, prop2.modelName), prop2.brandName, <<"LevelZeroBrand">>, prop2.brandName), prop2.serialNumber, <<"LevelZeroSerialNumber">>, prop2.serialNumber), prop2.boardNumber, <<"LevelZeroBoardNumber">>, prop2.boardNumber)

\* what the failure branch writes to stderr when warned is still 0
SysmanWarning(smm, hide) == IF smm = 1 /\ ~hide THEN <<SysmanLateMsg>> ELSE IF smm = 2 /\ ~hide THEN <<SysmanZeroMsg>> ELSE <<>>

\* variant: returns as soon as the basic query has failed
properties_get_EarlyReturn(dev, obj, smm, res, res2, w, hide) == IF res # ZE_RESULT_SUCCESS THEN [osdev |-> obj, warned |-> w, out |-> <<>>] ELSE [osdev |-> IF res2 = ZE_RESULT_SUCCESS THEN SysmanInfos(BasicInfos(obj, dev), dev) ELSE BasicInfos(obj, dev), warned |-> IF res2 = ZE_RESULT_SUCCESS THEN w ELSE 1, out |-> (IF ~DeviceTypeKnown(dev.type) /\ ~hide THEN <<UnexpectedTypeMsg(dev.type)>> ELSE <<>>) \o (IF res2 # ZE_RESULT_SUCCESS /\ w = 0 THEN SysmanWarning(smm, hide) ELSE <<>>)]

\* variant: the warned flag is never raised
properties_get_NoFlag(dev, obj, smm, res, res2, w, hide) == [osdev |-> LET o1 == IF res = ZE_RESULT_SUCCESS THEN BasicInfos(obj, dev) ELSE obj IN IF res2 = ZE_RESULT_SUCCESS THEN SysmanInfos(o1, dev) ELSE o1, warned |-> w, out |-> (IF res = ZE_RESULT_SUCCESS /\ ~DeviceTypeKnown(dev.type) /\ ~hide THEN <<UnexpectedTypeMsg(dev.type)>> ELSE <<>>) \o (IF res2 # ZE_RESULT_SUCCESS /\ w = 0 THEN SysmanWarning(smm, hide) ELSE <<>>)]

\* hwloc__levelzero_properties_get(): res and res2 are the results of the two
\* queries; yields the object, the static flag and the lines written
hwloc__levelzero_properties_get(dev, obj, smm, res, res2, w, hide) == [osdev |-> LET o1 == IF res = ZE_RESULT_SUCCESS THEN BasicInfos(obj, dev) ELSE obj IN IF res2 = ZE_RESULT_SUCCESS THEN SysmanInfos(o1, dev) ELSE o1, warned |-> IF res2 = ZE_RESULT_SUCCESS THEN w ELSE 1, out |-> (IF res = ZE_RESULT_SUCCESS /\ ~DeviceTypeKnown(dev.type) /\ ~hide THEN <<UnexpectedTypeMsg(dev.type)>> ELSE <<>>) \o (IF res2 # ZE_RESULT_SUCCESS /\ w = 0 THEN SysmanWarning(smm, hide) ELSE <<>>)]

\* -------------------------------------------------------------------- state
VARIABLES hw, hideErrors, environ, warned, stderr, faults, runs, heap, pc, ret, topology, filter, env, sysman_maybe_missing, zeInitSaw, stderr0, nbdrivers, i, nbdevices, j, zeidx, osdev, parent, nr_cqprops, drvlog, devlog, calls

vars == <<hw, hideErrors, environ, warned, stderr, faults, runs, heap, pc, ret, topology, filter, env, sysman_maybe_missing, zeInitSaw, stderr0, nbdrivers, i, nbdevices, j, zeidx, osdev, parent, nr_cqprops, drvlog, devlog, calls>>

\* hw, hideErrors: the machine and hwloc_hide_errors(), fixed for the process
\* environ: value of ZES_ENABLE_SYSMAN; warned: the static flag; stderr: lines
\* heap: live malloc() buffers per kind, and whether a free() hit a dead one
\* zeInitSaw: what ZES_ENABLE_SYSMAN held when zeInit() ran; stderr0: length
\* of stderr at stage entry; calls, drvlog, devlog: what the API and malloc()
\* answered in this invocation, for the stage-level calls, per driver examined
\* and per device reached
process == <<hw, hideErrors>>
driverLocals == <<nbdrivers, i, nbdevices, j, zeidx>>
deviceLocals == <<osdev, parent, nr_cqprops>>
entryLocals == <<filter, env, sysman_maybe_missing, zeInitSaw, stderr0>>
logs == <<drvlog, devlog, calls>>

BufferKinds == {"drh", "dvh", "cqprops"}
EmptyHeap == [live |-> [k \in BufferKinds |-> 0], badfree |-> FALSE]
Malloc(h, k) == [h EXCEPT !.live[k] = @ + 1]
Free(h, k) == IF h.live[k] > 0 THEN [h EXCEPT !.live[k] = @ - 1] ELSE [h EXCEPT !.badfree = TRUE]

Filters == {"HWLOC_TYPE_FILTER_KEEP_NONE", "HWLOC_TYPE_FILTER_KEEP_ALL"}

\* the results a vendor call may give, and whether malloc() may return NULL
CallResults == {ZE_RESULT_SUCCESS} \cup (IF faults < MaxFaults THEN ZeErrors ELSE {})
MallocResults == {TRUE} \cup (IF faults < MaxFaults THEN {FALSE} ELSE {})
Cost(res) == IF res = ZE_RESULT_SUCCESS THEN 0 ELSE 1
Status(res) == IF res = ZE_RESULT_SUCCESS THEN "ok" ELSE "failed"

Init == /\ \/ hw \in ShapeWorlds("healthy") /\ environ = Unset /\ hideErrors = FALSE
           \/ hw \in ShapeWorlds("no sysman") /\ environ = Unset /\ hideErrors \in BOOLEAN
           \/ hw \in ShapeWorlds("mixed") /\ environ = <<"0">> /\ hideErrors = FALSE
           \/ hw \in DeviceWorlds /\ environ = Unset /\ hideErrors \in BOOLEAN
           \/ hw \in FailureWorlds /\ environ \in EnvValues /\ hideErrors \in BOOLEAN
        /\ warned = 0
        /\ stderr = <<>>
        /\ faults = 0
        /\ runs = 0
        /\ heap = EmptyHeap
        /\ pc = "idle"
        /\ ret = NULL
        /\ topology = PciTopology
        /\ filter = NULL
        /\ env = Unset
        /\ sysman_maybe_missing = 0
        /\ zeInitSaw = NotCalled
        /\ stderr0 = 0
        /\ nbdrivers = 0 /\ i = 0 /\ nbdevices = 0 /\ j = 0 /\ zeidx = 0
        /\ osdev = NULL /\ parent = NULL /\ nr_cqprops = 0
        /\ drvlog = <<>> /\ devlog = <<>> /\ calls = <<>>

\* leaving hwloc_levelzero_discover(): the loop and device locals die
Return(r) == /\ pc' = "done"
             /\ ret' = r
             /\ nbdrivers' = 0 /\ i' = 0 /\ nbdevices' = 0 /\ j' = 0 /\ zeidx' = 0
             /\ osdev' = NULL /\ parent' = NULL /\ nr_cqprops' = 0

\* ---------------------------------------------- Discovery Stage Entry Point
\* the type filter check that opens the stage, on a freshly built topology
Discover_Enter == /\ pc \in {"idle", "done"}
                  /\ runs < MaxRuns
                  /\ runs' = runs + 1
                  /\ topology' = PciTopology
                  /\ drvlog' = <<>> /\ devlog' = <<>> /\ calls' = <<>>
                  /\ env' = Unset /\ sysman_maybe_missing' = 0 /\ zeInitSaw' = NotCalled
                  /\ stderr0' = Len(stderr)
                  /\ \E f \in Filters :
                       /\ filter' = f
                       /\ IF f = "HWLOC_TYPE_FILTER_KEEP_NONE"
                          THEN Return(0)
                          ELSE /\ pc' = "getenv"
                               /\ ret' = NULL
                               /\ UNCHANGED <<driverLocals, deviceLocals>>
                  /\ UNCHANGED <<process, environ, warned, stderr, faults, heap>>

\* variant: a toggle that is set but disabled is not told apart from an enabled one
SysmanNegotiate_NoDisabled(e) == [environ |-> IF e = Unset THEN <<"1">> ELSE e, sysman_maybe_missing |-> IF e = Unset THEN 1 ELSE 0]

\* the toggle negotiation: the value left in the environment and the wording selector
SysmanNegotiate(e) == [environ |-> IF e = Unset THEN <<"1">> ELSE e, sysman_maybe_missing |-> IF e = Unset THEN 1 ELSE IF Atoi(e) = 0 THEN 2 ELSE 0]

Discover_Getenv == /\ pc = "getenv"
                   /\ env' = environ
                   /\ environ' = SysmanNegotiate(environ).environ
                   /\ sysman_maybe_missing' = SysmanNegotiate(environ).sysman_maybe_missing
                   /\ pc' = "zeInit"
                   /\ UNCHANGED <<process, warned, stderr, faults, runs, heap, ret, topology, filter, zeInitSaw, stderr0, driverLocals, deviceLocals, logs>>

InitFailedMsg(res) == <<"Failed to initialize LevelZero in ze_init(): ">> \o FmtD(res) \o <<"\n">>

\* variant: an initialisation failure is returned to the caller as an error
Discover_zeInit_Fatal == /\ pc = "zeInit"
                         /\ zeInitSaw' = environ
                         /\ \E res \in CallResults :
                              /\ calls' = Append(calls, <<"zeInit", res = ZE_RESULT_SUCCESS>>)
                              /\ faults' = faults + Cost(res)
                              /\ IF res # ZE_RESULT_SUCCESS
                                 THEN /\ stderr' = (IF ~hideErrors THEN Append(stderr, InitFailedMsg(res)) ELSE stderr)
                                      /\ Return(-1)
                                 ELSE /\ pc' = "zeDriverGet"
                                      /\ UNCHANGED <<stderr, ret, driverLocals, deviceLocals>>
                         /\ UNCHANGED <<process, environ, warned, runs, heap, topology, filter, env, sysman_maybe_missing, stderr0, drvlog, devlog>>

Discover_zeInit == /\ pc = "zeInit"
                   /\ zeInitSaw' = environ
                   /\ \E res \in CallResults :
                        /\ calls' = Append(calls, <<"zeInit", res = ZE_RESULT_SUCCESS>>)
                        /\ faults' = faults + Cost(res)
                        /\ IF res # ZE_RESULT_SUCCESS
                           THEN /\ stderr' = (IF ~hideErrors THEN Append(stderr, InitFailedMsg(res)) ELSE stderr)
                                /\ Return(0)
                           ELSE /\ pc' = "zeDriverGet"
                                /\ UNCHANGED <<stderr, ret, driverLocals, deviceLocals>>
                   /\ UNCHANGED <<process, environ, warned, runs, heap, topology, filter, env, sysman_maybe_missing, stderr0, drvlog, devlog>>

\* zeDriverGet(&nbdrivers, NULL)
Discover_DriverCount == /\ pc = "zeDriverGet"
                        /\ \E res \in CallResults :
                             /\ calls' = Append(calls, <<"zeDriverGet count", res = ZE_RESULT_SUCCESS>>)
                             /\ faults' = faults + Cost(res)
                             /\ IF res # ZE_RESULT_SUCCESS \/ Len(hw.drivers) = 0
                                THEN Return(0)
                                ELSE /\ nbdrivers' = Len(hw.drivers)
                                     /\ pc' = "malloc drh"
                                     /\ UNCHANGED <<ret, i, nbdevices, j, zeidx, deviceLocals>>
                        /\ UNCHANGED <<process, environ, warned, stderr, runs, heap, topology, entryLocals, drvlog, devlog>>

Discover_DriverAlloc == /\ pc = "malloc drh"
                        /\ \E ok \in MallocResults :
                             /\ calls' = Append(calls, <<"malloc drh", ok>>)
                             /\ IF ok
                                THEN /\ heap' = Malloc(heap, "drh")
                                     /\ pc' = "zeDriverGet fill"
                                     /\ UNCHANGED <<faults, ret, driverLocals, deviceLocals>>
                                ELSE /\ faults' = faults + 1
                                     /\ Return(0)
                                     /\ UNCHANGED heap
                        /\ UNCHANGED <<process, environ, warned, stderr, runs, topology, entryLocals, drvlog, devlog>>

\* zeDriverGet(&nbdrivers, drh), then zeidx = 0 and i = 0
Discover_DriverFill == /\ pc = "zeDriverGet fill"
                       /\ \E res \in CallResults :
                            /\ calls' = Append(calls, <<"zeDriverGet fill", res = ZE_RESULT_SUCCESS>>)
                            /\ faults' = faults + Cost(res)
                            /\ IF res # ZE_RESULT_SUCCESS
                               THEN /\ heap' = Free(heap, "drh")
                                    /\ Return(0)
                               ELSE /\ zeidx' = 0
                                    /\ i' = 0
                                    /\ pc' = "driver loop"
                                    /\ UNCHANGED <<heap, ret, nbdrivers, nbdevices, j, deviceLocals>>
                       /\ UNCHANGED <<process, environ, warned, stderr, runs, topology, entryLocals, drvlog, devlog>>

\* ---------------------------------------------------------- Device Enumerator
Device == hw.drivers[i + 1][j + 1]

\* the result of a query on the current device
QueryResult(q) == IF q \in Device.fails THEN CHOOSE e \in ZeErrors : TRUE ELSE ZE_RESULT_SUCCESS

\* `continue` of the driver loop, noting why driver i yielded what it did
NextDriver(outcome) == /\ i' = i + 1
                       /\ nbdevices' = 0 /\ j' = 0
                       /\ drvlog' = Append(drvlog, outcome)
                       /\ pc' = "driver loop"

\* the loop test i<nbdrivers, then zeDeviceGet(drh[i], &nbdevices, NULL)
Discover_DeviceCount == /\ pc = "driver loop"
                        /\ i < nbdrivers
                        /\ \E res \in CallResults :
                             /\ faults' = faults + Cost(res)
                             /\ IF res # ZE_RESULT_SUCCESS
                                THEN NextDriver("count failed")
                                ELSE IF Len(hw.drivers[i + 1]) = 0
                                     THEN NextDriver("no devices")
                                     ELSE /\ nbdevices' = Len(hw.drivers[i + 1])
                                          /\ pc' = "malloc dvh"
                                          /\ UNCHANGED <<i, j, drvlog>>
                        /\ UNCHANGED <<calls, process, environ, warned, stderr, runs, heap, ret, topology, entryLocals, nbdrivers, zeidx, deviceLocals, devlog>>

Discover_DeviceAlloc == /\ pc = "malloc dvh"
                        /\ \E ok \in MallocResults :
                             IF ok
                             THEN /\ heap' = Malloc(heap, "dvh")
                                  /\ pc' = "zeDeviceGet fill"
                                  /\ UNCHANGED <<faults, i, nbdevices, j, drvlog>>
                             ELSE /\ faults' = faults + 1
                                  /\ NextDriver("alloc failed")
                                  /\ UNCHANGED heap
                        /\ UNCHANGED <<calls, process, environ, warned, stderr, runs, ret, topology, entryLocals, nbdrivers, zeidx, deviceLocals, devlog>>

\* variant: a failed fill of the device list ends the whole pass
Discover_DeviceFill_Abort == /\ pc = "zeDeviceGet fill"
                             /\ \E res \in CallResults :
                                  /\ faults' = faults + Cost(res)
                                  /\ IF res # ZE_RESULT_SUCCESS
                                     THEN /\ heap' = Free(Free(heap, "dvh"), "drh")
                                          /\ drvlog' = Append(drvlog, "fill failed")
                                          /\ Return(0)
                                     ELSE /\ j' = 0
                                          /\ pc' = "device loop"
                                          /\ UNCHANGED <<heap, ret, i, nbdevices, drvlog, nbdrivers, zeidx, deviceLocals>>
                             /\ UNCHANGED <<calls, process, environ, warned, stderr, runs, topology, entryLocals, devlog>>

\* variant: a failed fill of the device list skips the driver without free(dvh)
Discover_DeviceFill_Leak == /\ pc = "zeDeviceGet fill"
                            /\ \E res \in CallResults :
                                 /\ faults' = faults + Cost(res)
                                 /\ IF res # ZE_RESULT_SUCCESS
                                    THEN NextDriver("fill failed")
                                    ELSE /\ j' = 0
                                         /\ pc' = "device loop"
                                         /\ UNCHANGED <<i, nbdevices, drvlog>>
                            /\ UNCHANGED <<calls, heap, process, environ, warned, stderr, runs, ret, topology, entryLocals, nbdrivers, zeidx, deviceLocals, devlog>>

\* zeDeviceGet(drh[i], &nbdevices, dvh), then j = 0
Discover_DeviceFill == /\ pc = "zeDeviceGet fill"
                       /\ \E res \in CallResults :
                            /\ faults' = faults + Cost(res)
                            /\ IF res # ZE_RESULT_SUCCESS
                               THEN /\ heap' = Free(heap, "dvh")
                                    /\ NextDriver("fill failed")
                               ELSE /\ j' = 0
                                    /\ pc' = "device loop"
                                    /\ UNCHANGED <<heap, i, nbdevices, drvlog>>
                       /\ UNCHANGED <<calls, process, environ, warned, stderr, runs, ret, topology, entryLocals, nbdrivers, zeidx, deviceLocals, devlog>>

\* snprintf(buffer, sizeof(buffer), "ze%u", zeidx)
DeviceName(idx) == <<"ze">> \o FmtU(idx)

\* variant: the name is taken from the index of the device within its driver
NewOsdev_PerDriver(idx, di, dj) == hwloc_obj_add_info(hwloc_obj_add_info(hwloc_obj_add_info([hwloc_alloc_setup_object("HWLOC_OBJ_OS_DEVICE") EXCEPT !.name = DeviceName(dj), !.depth = "HWLOC_TYPE_DEPTH_UNKNOWN", !.osdevtype = "HWLOC_OBJ_OSDEV_COPROC", !.subtype = <<"LevelZero">>], <<"Backend">>, <<"LevelZero">>), <<"LevelZeroDriverIndex">>, FmtU(di)), <<"LevelZeroDriverDeviceIndex">>, FmtU(dj))

\* the object as set up before the collectors run
NewOsdev(idx, di, dj) == hwloc_obj_add_info(hwloc_obj_add_info(hwloc_obj_add_info([hwloc_alloc_setup_object("HWLOC_OBJ_OS_DEVICE") EXCEPT !.name = DeviceName(idx), !.depth = "HWLOC_TYPE_DEPTH_UNKNOWN", !.osdevtype = "HWLOC_OBJ_OSDEV_COPROC", !.subtype = <<"LevelZero">>], <<"Backend">>, <<"LevelZero">>), <<"LevelZeroDriverIndex">>, FmtU(di)), <<"LevelZeroDriverDeviceIndex">>, FmtU(dj))

\* the loop test j<nbdevices, then the object set-up
Discover_DeviceSetup == /\ pc = "device loop"
                        /\ j < nbdevices
                        /\ osdev' = NewOsdev(zeidx, i, j)
                        /\ devlog' = Append(devlog, [i |-> i, j |-> j, basic |-> "pending", sysman |-> "pending", cq |-> "pending", pci |-> "pending"])
                        /\ pc' = "properties"
                        /\ UNCHANGED <<calls, process, environ, warned, stderr, faults, runs, heap, ret, topology, entryLocals, driverLocals, parent, nr_cqprops, drvlog>>

\* the call of hwloc__levelzero_properties_get(dvh[j], osdev, sysman_maybe_missing)
Discover_Properties == /\ pc = "properties"
                       /\ LET res == QueryResult("zeDeviceGetProperties")
                              res2 == QueryResult("zesDeviceGetProperties")
                              got == hwloc__levelzero_properties_get(Device, osdev, sysman_maybe_missing, res, res2, warned, hideErrors)
                          IN /\ osdev' = got.osdev
                             /\ warned' = got.warned
                             /\ stderr' = stderr \o got.out
                             /\ devlog' = [devlog EXCEPT ![Len(devlog)].basic = Status(res), ![Len(devlog)].sysman = Status(res2)]
                       /\ pc' = "cq count"
                       /\ UNCHANGED <<calls, process, environ, faults, runs, heap, ret, topology, entryLocals, driverLocals, parent, nr_cqprops, drvlog>>

\* ---------------------------------------------------- Queue-Topology Collector
\* zeDeviceGetCommandQueueGroupProperties(dvh[j], &nr_cqprops, NULL)
Discover_CQCount == /\ pc = "cq count"
                    /\ LET res == QueryResult("zeDeviceGetCommandQueueGroupProperties count")
                       IN IF res = ZE_RESULT_SUCCESS /\ Device.cqCount # 0
                          THEN /\ nr_cqprops' = Device.cqCount
                               /\ pc' = "malloc cqprops"
                               /\ UNCHANGED devlog
                          ELSE /\ nr_cqprops' = 0
                               /\ pc' = "pci"
                               /\ devlog' = [devlog EXCEPT ![Len(devlog)].cq = IF res = ZE_RESULT_SUCCESS THEN "no groups" ELSE "count failed"]
                    /\ UNCHANGED <<calls, process, environ, warned, stderr, faults, runs, heap, ret, topology, entryLocals, driverLocals, osdev, parent, drvlog>>

Discover_CQAlloc == /\ pc = "malloc cqprops"
                    /\ \E ok \in MallocResults :
                         IF ok
                         THEN /\ heap' = Malloc(heap, "cqprops")
                              /\ pc' = "cq fill"
                              /\ UNCHANGED <<faults, devlog>>
                         ELSE /\ faults' = faults + 1
                              /\ pc' = "pci"
                              /\ devlog' = [devlog EXCEPT ![Len(devlog)].cq = "alloc failed"]
                              /\ UNCHANGED heap
                    /\ UNCHANGED <<calls, process, environ, warned, stderr, runs, ret, topology, entryLocals, driverLocals, deviceLocals, drvlog>>

\* the count the fill call leaves in nr_cqprops: never more than was asked for
CQFilled(asked, available) == IF asked < available THEN asked ELSE available

\* variant: the flags are printed in decimal
CQGroupValue_Decimal(d) == FmtU(d.numQueues) \o <<"*0x">> \o FmtU(d.flags)

\* snprintf(tmp, sizeof(tmp), "%u*0x%lx", numQueues, flags)
CQGroupValue(d) == FmtU(d.numQueues) \o <<"*0x">> \o FmtLX(d.flags)

\* the k loop over the first n descriptors, k counting from 0
RECURSIVE CQGroupInfos(_, _, _, _)
CQGroupInfos(obj, cqprops, k, n) == IF k < n THEN CQGroupInfos(hwloc_obj_add_info(obj, <<"LevelZeroCQGroup">> \o FmtU(k), CQGroupValue(cqprops[k + 1])), cqprops, k + 1, n) ELSE obj

\* the attributes written after a successful fill
CQInfos(obj, cqprops, n) == CQGroupInfos(hwloc_obj_add_info(obj, <<"LevelZeroCQGroups">>, FmtU(n)), cqprops, 0, n)

\* zeDeviceGetCommandQueueGroupProperties(dvh[j], &nr_cqprops, cqprops)
Discover_CQFill == /\ pc = "cq fill"
                   /\ LET res == QueryResult("zeDeviceGetCommandQueueGroupProperties fill")
                          n == CQFilled(nr_cqprops, Len(Device.cq))
                      IN IF res = ZE_RESULT_SUCCESS
                         THEN /\ nr_cqprops' = n
                              /\ osdev' = CQInfos(osdev, Device.cq, n)
                              /\ devlog' = [devlog EXCEPT ![Len(devlog)].cq = "filled"]
                         ELSE /\ devlog' = [devlog EXCEPT ![Len(devlog)].cq = "fill failed"]
                              /\ UNCHANGED <<osdev, nr_cqprops>>
                   /\ pc' = "free cqprops"
                   /\ UNCHANGED <<calls, process, environ, warned, stderr, faults, runs, heap, ret, topology, entryLocals, driverLocals, parent, drvlog>>

Discover_CQFree == /\ pc = "free cqprops"
                   /\ heap' = Free(heap, "cqprops")
                   /\ pc' = "pci"
                   /\ UNCHANGED <<process, environ, warned, stderr, faults, runs, ret, topology, entryLocals, driverLocals, deviceLocals, logs>>

\* ------------------------------------------------------------------ Bus Locator
\* variant: no fall-back to the root when the lookup finds nothing
ResolveParent_NoFallback(topo, res, found) == IF res = ZE_RESULT_SUCCESS THEN found ELSE hwloc_get_root_obj(topo)

\* the parent chosen from the result of zesDevicePciGetProperties() and the lookup
ResolveParent(topo, res, found) == IF res = ZE_RESULT_SUCCESS /\ found # NULL THEN found ELSE hwloc_get_root_obj(topo)

\* ((float) maxBandwidth)/1000/1000/1000, as an exact fraction
LinkSpeed(maxBandwidth) == <<maxBandwidth, 1000 * 1000 * 1000>>

\* the link speed written on the PCI device the lookup returned
PropagateLinkSpeed(topo, found, maxBandwidth) == IF found # NULL /\ topo.nodes[found].type = "HWLOC_OBJ_PCI_DEVICE" /\ maxBandwidth > 0 THEN [topo EXCEPT !.nodes[found].linkspeed = LinkSpeed(maxBandwidth)] ELSE topo

Discover_Pci == /\ pc = "pci"
                /\ LET res == QueryResult("zesDevicePciGetProperties")
                       found == hwloc_pci_find_parent_by_busid(topology, Device.busid)
                   IN /\ topology' = (IF res = ZE_RESULT_SUCCESS THEN PropagateLinkSpeed(topology, found, Device.maxBandwidth) ELSE topology)
                      /\ parent' = ResolveParent(topology, res, found)
                      /\ devlog' = [devlog EXCEPT ![Len(devlog)].pci = Status(res)]
                /\ pc' = "insert"
                /\ UNCHANGED <<calls, process, environ, warned, stderr, faults, runs, heap, ret, entryLocals, driverLocals, osdev, nr_cqprops, drvlog>>

\* hwloc_insert_object_by_parent(), zeidx++ and the j++ of the device loop
Discover_Insert == /\ pc = "insert"
                   /\ topology' = hwloc_insert_object_by_parent(topology, parent, osdev)
                   /\ zeidx' = zeidx + 1
                   /\ j' = j + 1
                   /\ osdev' = NULL /\ parent' = NULL /\ nr_cqprops' = 0
                   /\ pc' = "device loop"
                   /\ UNCHANGED <<process, environ, warned, stderr, faults, runs, heap, ret, entryLocals, nbdrivers, i, nbdevices, logs>>

\* the device loop is over: free(dvh) and the i++ of the driver loop
Discover_DeviceFree == /\ pc = "device loop"
                       /\ j >= nbdevices
                       /\ heap' = Free(heap, "dvh")
                       /\ NextDriver("listed")
                       /\ UNCHANGED <<calls, process, environ, warned, stderr, faults, runs, ret, topology, entryLocals, nbdrivers, zeidx, deviceLocals, devlog>>

\* the driver loop is over: free(drh); return 0
Discover_DriverFree == /\ pc = "driver loop"
                       /\ i >= nbdrivers
                       /\ heap' = Free(heap, "drh")
                       /\ Return(0)
                       /\ UNCHANGED <<process, environ, warned, stderr, faults, runs, topology, entryLocals, logs>>

Next == \/ Discover_Enter
        \/ Discover_Getenv
        \/ Discover_zeInit
        \/ Discover_DriverCount
        \/ Discover_DriverAlloc
        \/ Discover_DriverFill
        \/ Discover_DeviceCount
        \/ Discover_DeviceAlloc
        \/ Discover_DeviceFill
        \/ Discover_DeviceSetup
        \/ Discover_Properties
        \/ Discover_CQCount
        \/ Discover_CQAlloc
        \/ Discover_CQFill
        \/ Discover_CQFree
        \/ Discover_Pci
        \/ Discover_Insert
        \/ Discover_DeviceFree
        \/ Discover_DriverFree

Spec == Init /\ [][Next]_vars

TypeOK == /\ pc \in {"idle", "done", "getenv", "zeInit", "zeDriverGet", "malloc drh", "zeDriverGet fill", "driver loop", "malloc dvh", "zeDeviceGet fill", "device loop", "properties", "cq count", "malloc cqprops", "cq fill", "free cqprops", "pci", "insert"}
          /\ warned \in {0, 1}
          /\ faults \in 0..MaxFaults
          /\ runs \in 0..MaxRuns

\* ------------------------------------------------------------------ properties
\* Vocabulary of the properties below.
InDevice == pc \in {"properties", "cq count", "malloc cqprops", "cq fill", "free cqprops", "pci", "insert"}

\* the number of devices whose pass through the device loop is complete
Inserted == IF InDevice THEN Len(devlog) - 1 ELSE Len(devlog)

\* the tree changes only by an insertion: the states right after one, and the
\* state the stage returns in, are where the inserted nodes are examined
Settled == pc \in {"device loop", "done"}

Range(f) == {f[x] : x \in DOMAIN f}
Dec1(n) == <<Digits[n + 1]>>
Slots(obj, name) == {k \in 1..Len(obj.infos) : obj.infos[k].name = name}
Has(obj, name) == Slots(obj, name) # {}
Once(obj, name) == Cardinality(Slots(obj, name)) = 1
Carries(obj, name, value) == Once(obj, name) /\ \A k \in Slots(obj, name) : obj.infos[k].value = value
Tagged(obj, name, value) == \E k \in 1..Len(obj.infos) : obj.infos[k] = [name |-> name, value |-> value]
IsDeviceNode(obj, di, dj) == Tagged(obj, <<"LevelZeroDriverIndex">>, Dec1(di)) /\ Tagged(obj, <<"LevelZeroDriverDeviceIndex">>, Dec1(dj))
Placements(di, dj) == UNION {{<<n, q>> : q \in {r \in 1..Len(topology.nodes[n].children) : IsDeviceNode(topology.nodes[n].children[r], di, dj)}} : n \in NodeIds}
NodeOf(di, dj) == LET pl == CHOOSE x \in Placements(di, dj) : TRUE IN topology.nodes[pl[1]].children[pl[2]]
NodeCount == Len(topology.nodes["root"].children) + Len(topology.nodes["pcidev"].children) + Len(topology.nodes["bridge"].children)
DeviceOf(e) == hw.drivers[e.i + 1][e.j + 1]
Device0 == hw.drivers[1][1]
BasicNames == {<<"LevelZeroDeviceType">>, <<"LevelZeroDeviceNumSlices">>, <<"LevelZeroDeviceNumSubslicesPerSlice">>, <<"LevelZeroDeviceNumEUsPerSubslice">>, <<"LevelZeroDeviceNumThreadsPerEU">>}
SysmanNames == {<<"LevelZeroVendor">>, <<"LevelZeroModel">>, <<"LevelZeroBrand">>, <<"LevelZeroSerialNumber">>, <<"LevelZeroBoardNumber">>}
Placeholder(str) == Len(str) = 7 /\ \A k \in 1..7 : str[k] \in {S_UNKNOWN[k], S_unknown[k]}
SysmanLines == {k \in 1..Len(stderr) : stderr[k] \in {SysmanLateMsg, SysmanZeroMsg}}
IsCQName(name) == name[1] \in {"LevelZeroCQGroups", "LevelZeroCQGroup"}
CQPart(obj) == SelectSeq(obj.infos, LAMBDA r : IsCQName(r.name))
Called(name, ok) == <<name, ok>> \in Range(calls)

\* C1: every device the device loop has been through is in the tree exactly
\* once, under the node its bus id resolves to when the PCI query succeeded
\* and the lookup found one, under the root otherwise; nothing else is inserted.
C1_AttachedOnce == /\ NodeCount = Inserted
                   /\ Settled => \A k \in 1..Inserted :
                        LET e == devlog[k]
                            busid == DeviceOf(e).busid
                            expected == IF e.pci = "ok" /\ busid = BusPciDev THEN "pcidev" ELSE IF e.pci = "ok" /\ busid = BusBridge THEN "bridge" ELSE "root"
                        IN \E q \in 1..Inserted : Placements(e.i, e.j) = {<<expected, q>>}

C1_Witness == /\ pc = "done"
              /\ \E k \in 1..Len(devlog) : devlog[k].pci = "ok" /\ DeviceOf(devlog[k]).busid = BusPciDev /\ Placements(devlog[k].i, devlog[k].j) # {}
              /\ \E k \in 1..Len(devlog) : devlog[k].pci = "ok" /\ DeviceOf(devlog[k]).busid = BusNone /\ Placements(devlog[k].i, devlog[k].j) # {}
              /\ \E k \in 1..Len(devlog) : devlog[k].pci = "failed" /\ Placements(devlog[k].i, devlog[k].j) # {}

\* C2: an inserted device whose sysman query failed while the basic query
\* succeeded carries each of the five basic attributes once and no sysman
\* attribute; one whose basic query failed while the sysman query succeeded
\* carries no basic attribute and still the vendor, brand, serial and board
\* attributes whose reported value is not the placeholder.
C2_QueriesIndependent == Settled => \A k \in 1..Inserted :
                            LET e == devlog[k]
                                d == DeviceOf(e)
                                node == NodeOf(e.i, e.j)
                                basicOnly == /\ \A n \in BasicNames : Once(node, n)
                                             /\ \A n \in SysmanNames : ~Has(node, n)
                                sysmanOnly == /\ \A n \in BasicNames : ~Has(node, n)
                                              /\ Placeholder(d.vendorName) \/ Carries(node, <<"LevelZeroVendor">>, d.vendorName)
                                              /\ Placeholder(d.brandName) \/ Carries(node, <<"LevelZeroBrand">>, d.brandName)
                                              /\ Placeholder(d.serialNumber) \/ Carries(node, <<"LevelZeroSerialNumber">>, d.serialNumber)
                                              /\ Placeholder(d.boardNumber) \/ Carries(node, <<"LevelZeroBoardNumber">>, d.boardNumber)
                            IN /\ Placements(e.i, e.j) # {}
                               /\ (e.basic = "ok" /\ e.sysman = "failed") => basicOnly
                               /\ (e.basic = "failed" /\ e.sysman = "ok") => sysmanOnly

C2_Witness == /\ pc = "done"
              /\ \E k \in 1..Len(devlog) : devlog[k].basic = "ok" /\ devlog[k].sysman = "failed" /\ Once(NodeOf(devlog[k].i, devlog[k].j), <<"LevelZeroDeviceType">>)
              /\ \E k \in 1..Len(devlog) : devlog[k].basic = "failed" /\ devlog[k].sysman = "ok" /\ Has(NodeOf(devlog[k].i, devlog[k].j), <<"LevelZeroVendor">>)

\* C3: the k-th device of an invocation, counting from 0 in driver order and
\* then device order, is named "ze<k>": one counter serves all drivers and
\* skipped drivers use up no index; children of one parent keep that order.
C3_GlobalNames == /\ Settled => \A k \in 1..Inserted : Placements(devlog[k].i, devlog[k].j) # {} /\ NodeOf(devlog[k].i, devlog[k].j).name = <<"ze", Digits[k]>>
                  /\ \A k \in 1..Len(devlog), l \in 1..Len(devlog) : k < l => (devlog[k].i < devlog[l].i \/ (devlog[k].i = devlog[l].i /\ devlog[k].j < devlog[l].j))
                  /\ Settled => \A n \in NodeIds : \A q \in 1..Len(topology.nodes[n].children), r \in 1..Len(topology.nodes[n].children) : q < r => \E k \in 1..Inserted, l \in 1..Inserted : k < l /\ topology.nodes[n].children[q].name = <<"ze", Digits[k]>> /\ topology.nodes[n].children[r].name = <<"ze", Digits[l]>>

C3_Witness == /\ pc = "done"
              /\ Len(devlog) >= 3
              /\ Len(drvlog) >= 2 /\ drvlog[1] = "listed" /\ drvlog[2] = "listed"
              /\ NodeOf(1, 0).name = <<"ze", Digits[Len(hw.drivers[1]) + 1]>>

\* C4: over all invocations of a process at most one sysman-failure line, of
\* either wording, is on stderr, and none when errors are hidden.
C4_WarnedOnce == /\ Cardinality(SysmanLines) <= 1
                 /\ hideErrors => SysmanLines = {}

C4_Witness == /\ pc = "done"
              /\ runs = 2
              /\ \E k \in SysmanLines : k <= stderr0
              /\ Cardinality({k \in 1..Len(devlog) : devlog[k].sysman = "failed"}) >= 2
              /\ Cardinality(SysmanLines) = 1

\* C5: an invocation that is filtered out, whose zeInit() fails, or whose
\* driver count query fails or reports no driver returns 0 and leaves the
\* tree as it found it; with no driver nothing is written to stderr; when
\* every driver reports no device the result is 0 and no node.
C5_CleanNoOp == pc = "done" =>
                   /\ (filter = "HWLOC_TYPE_FILTER_KEEP_NONE" \/ Called("zeInit", FALSE) \/ Called("zeDriverGet count", FALSE) \/ (Called("zeDriverGet count", TRUE) /\ Len(hw.drivers) = 0)) => (ret = 0 /\ topology = PciTopology)
                   /\ (Called("zeDriverGet count", TRUE) /\ Len(hw.drivers) = 0) => Len(stderr) = stderr0
                   /\ (\A d \in 1..Len(hw.drivers) : Len(hw.drivers[d]) = 0) => (ret = 0 /\ NodeCount = 0)

C5_Witness == /\ pc = "done"
              /\ Called("zeInit", FALSE)
              /\ Len(stderr) = stderr0 + 1
              /\ ret = 0

\* the devices a pass over all drivers reaches, given how each listing went
RECURSIVE ExpectedFrom(_)
ExpectedFrom(d) == IF d > Len(hw.drivers) THEN <<>> ELSE (IF drvlog[d] = "listed" THEN [q \in 1..Len(hw.drivers[d]) |-> <<d - 1, q - 1>>] ELSE <<>>) \o ExpectedFrom(d + 1)

\* C6 (as amended): once the driver list is filled the pass examines every
\* driver and returns 0; a driver whose count query, list allocation or list
\* fill fails yields no node, every other driver yields all its devices,
\* numbered as if the failed drivers were absent; a device whose queue-group
\* buffer cannot be allocated is inserted all the same, without queue attributes.
C6_ScopedFailures == (pc = "done" /\ Called("zeDriverGet fill", TRUE)) =>
                        /\ ret = 0
                        /\ Len(drvlog) = Len(hw.drivers)
                        /\ \A d \in 1..Len(drvlog) : drvlog[d] = "listed" \/ Len(hw.drivers[d]) = 0 \/ faults > 0
                        /\ [k \in 1..Len(devlog) |-> <<devlog[k].i, devlog[k].j>>] = ExpectedFrom(1)
                        /\ NodeCount = Len(devlog)
                        /\ \A k \in 1..Len(devlog) :
                             /\ Cardinality(Placements(devlog[k].i, devlog[k].j)) = 1
                             /\ NodeOf(devlog[k].i, devlog[k].j).name = <<"ze", Digits[k]>>
                             /\ devlog[k].cq = "alloc failed" => CQPart(NodeOf(devlog[k].i, devlog[k].j)) = <<>>

C6_Witness == /\ pc = "done"
              /\ Len(drvlog) = 2
              /\ drvlog[1] \in {"count failed", "alloc failed", "fill failed"}
              /\ Len(hw.drivers[1]) > 0
              /\ drvlog[2] = "listed"
              /\ Len(devlog) = Len(hw.drivers[2])
              /\ NodeOf(1, 0).name = <<"ze", "0">>
              /\ NodeCount = Len(hw.drivers[2])

\* C6 as stated: a device whose queue-group buffer cannot be allocated is skipped
C6_Original == Settled => \A k \in 1..Inserted : devlog[k].cq = "alloc failed" => Placements(devlog[k].i, devlog[k].j) = {}

\* C7 as stated: when the sysman query succeeded, each of the five sysman
\* attributes is on the node exactly when its own reported value is not the
\* placeholder "Unknown" in any letter case.
C7_OwnValueDecides == Settled => \A k \in 1..Inserted :
                         LET e == devlog[k]
                             d == DeviceOf(e)
                             node == NodeOf(e.i, e.j)
                             own == /\ Has(node, <<"LevelZeroVendor">>) = ~Placeholder(d.vendorName)
                                    /\ Has(node, <<"LevelZeroModel">>) = ~Placeholder(d.modelName)
                                    /\ Has(node, <<"LevelZeroBrand">>) = ~Placeholder(d.brandName)
                                    /\ Has(node, <<"LevelZeroSerialNumber">>) = ~Placeholder(d.serialNumber)
                                    /\ Has(node, <<"LevelZeroBoardNumber">>) = ~Placeholder(d.boardNumber)
                         IN e.sysman = "ok" => own

\* the decimal and hexadecimal spellings of the numbers the machines report
DecTable == (0 :> <<"0">>) @@ (1 :> <<"1">>) @@ (2 :> <<"2">>) @@ (3 :> <<"3">>) @@ (4 :> <<"4">>) @@ (12 :> <<"1", "2">>)
HexTable == (0 :> <<"0">>) @@ (15 :> <<"f">>) @@ (31 :> <<"1", "f">>)

\* C8: an inserted device whose queue-group count query failed or reported
\* zero has no queue attribute; one whose count and fill both succeeded with
\* final count n has LevelZeroCQGroups = n followed by LevelZeroCQGroup0 ..
\* LevelZeroCQGroup<n-1>, each "<queue count>*0x<flags in hex>" of its
\* descriptor; in every other case there is no queue attribute either.
C8_QueueAttrs == Settled => \A k \in 1..Inserted :
                    LET e == devlog[k]
                        d == DeviceOf(e)
                        part == CQPart(NodeOf(e.i, e.j))
                        n == Len(d.cq)
                    IN /\ Placements(e.i, e.j) # {}
                       /\ e.cq # "filled" => part = <<>>
                       /\ e.cq = "filled" => /\ Len(part) = n + 1
                                             /\ part[1] = [name |-> <<"LevelZeroCQGroups">>, value |-> DecTable[n]]
                                             /\ \A g \in 1..n : part[g + 1] = [name |-> <<"LevelZeroCQGroup", Digits[g]>>, value |-> DecTable[d.cq[g].numQueues] \o <<"*0x">> \o HexTable[d.cq[g].flags]]

C8_Witness == /\ pc = "done"
              /\ Len(devlog) = 1
              /\ devlog[1].cq = "filled"
              /\ Len(Device0.cq) = 2 /\ Device0.cqCount = 3 /\ Device0.cq[2].flags = 31 /\ Device0.cq[1].flags = 0
              /\ Len(CQPart(NodeOf(0, 0))) = 3

\* the values of the toggle that atoi() reads as 0, and the others
DisabledValues == {<<"0">>, <<"o", "n">>}
EnabledValues == {<<"1">>, <<" ", "2">>}
RunLines == {k \in SysmanLines : k > stderr0}

\* C9: once zeInit() has been called in an invocation, the toggle was settled
\* before the call: unset at entry, it was set to "1" and any sysman-failure
\* line of the invocation has the "set too late" wording; set to a disabled
\* value, it is unchanged and any such line has the "ZES_ENABLE_SYSMAN=0"
\* wording; set and enabled, it is unchanged and there is no such line.  The
\* first sysman failure of a process is reported, unless errors are hidden or
\* the toggle was enabled.
C9_Negotiation == zeInitSaw # NotCalled =>
                     /\ env \in {Unset} \cup DisabledValues \cup EnabledValues
                     /\ env = Unset => (zeInitSaw = <<"1">> /\ environ = <<"1">> /\ \A k \in RunLines : stderr[k] = SysmanLateMsg)
                     /\ env \in DisabledValues => (zeInitSaw = env /\ environ = env /\ \A k \in RunLines : stderr[k] = SysmanZeroMsg)
                     /\ env \in EnabledValues => (zeInitSaw = env /\ environ = env /\ RunLines = {})
                     /\ (runs = 1 /\ ~hideErrors /\ env \notin EnabledValues /\ \E k \in 1..Len(devlog) : devlog[k].sysman = "failed") => RunLines # {}

C9_Witness == /\ pc = "done"
              /\ env \in DisabledValues
              /\ \E k \in RunLines : stderr[k] = SysmanZeroMsg /\ stderr[k] # SysmanLateMsg
              /\ environ = <<"o", "n">>

\* C10: no buffer is freed twice or while dead, at most one buffer of each
\* kind is live, the queue-group buffer is dead before the bus locator runs
\* and the node is inserted, the device list is dead whenever the driver loop
\* turns to a driver, the driver list lives exactly while the loops run, and
\* nothing is live once the stage has returned.
C10_BuffersScoped == /\ ~heap.badfree
                     /\ \A b \in BufferKinds : heap.live[b] <= 1
                     /\ pc \in {"idle", "done", "getenv", "zeInit", "zeDriverGet", "malloc drh"} => \A b \in BufferKinds : heap.live[b] = 0
                     /\ pc \in {"zeDriverGet fill", "driver loop", "malloc dvh"} => (heap.live["drh"] = 1 /\ heap.live["dvh"] = 0 /\ heap.live["cqprops"] = 0)
                     /\ pc \in {"zeDeviceGet fill", "device loop", "properties", "cq count", "malloc cqprops", "pci", "insert"} => (heap.live["drh"] = 1 /\ heap.live["dvh"] = 1 /\ heap.live["cqprops"] = 0)
                     /\ pc \in {"cq fill", "free cqprops"} => (heap.live["drh"] = 1 /\ heap.live["dvh"] = 1 /\ heap.live["cqprops"] = 1)

C10_Witness == /\ pc = "done"
               /\ Called("zeDriverGet fill", TRUE)
               /\ \E d \in 1..Len(drvlog) : drvlog[d] = "fill failed"
               /\ \E k \in 1..Len(devlog) : devlog[k].cq = "fill failed"
               /\ \E k \in 1..Len(devlog) : devlog[k].cq = "filled"

====
